---- MODULE Spec2Model ----
(***************************************************************************)
(* gdunsharp: C# declarations -> symbol graph -> C++ header tree.          *)
(*                                                                         *)
(* The run is the module top level of gdunsharp.py: populate_with_dummy,   *)
(* gather_namespace_and_types (Discovery), gather_class_elements and       *)
(* consolidate_class_usings (Resolution), prepare_out_directory and        *)
(* Codebase.emit_cpp (Emission).  A namespace is named by its path from    *)
(* the root (a sequence of segment names, << >> for the root); a class is  *)
(* named by << path, id >>.  A Python dict is a sequence in insertion      *)
(* order.                                                                  *)
(***************************************************************************)
EXTENDS Integers, Sequences, FiniteSets, TLC

VARIABLES
  pc,             \* "discovery" | "resolution" | "prepare" | "emit" | "done", or
                  \* "discovery_aborted" | "resolution_aborted" | "prepare_aborted"
                  \* after an exception
  fam,            \* the syntax nodes the parsed files of this run are made of
  subnamespaces,  \* namespace path -> CodeNamespace.subnamespaces (child names)
  types_by_id,    \* namespace path -> CodeNamespace.types_by_id
  classes,        \* << path, id >> -> the mutable part of a CodeClass
  trees,          \* the trees visited so far, each the top-level nodes visited so far
  namespace,      \* traverse_tree_level's current namespace
  file_usings,    \* per tree, the one `usings` list object of that tree
  work,           \* gather_class_elements: the contexts not yet begun
  cur,            \* gather_class_elements: the context being resolved, or << >>
  chain,          \* gather_class_elements: `namespaces` of the current context
  fi,             \* index of the next declaration of the current context
  last,           \* what the latest create_class_field call did
  out0,           \* the output location as the run found it
  out_exists,     \* os.path.exists(out_path)
  fs,             \* files under out_path: path -> contents
  log             \* the files this run wrote, in order

vars == << pc, fam, subnamespaces, types_by_id, classes, trees, namespace,
           file_usings, work, cur, chain, fi, last, out0, out_exists, fs, log >>

----------------------------------------------------------------------------
(* Bounds of the model. *)

MaxFiles == 2

MaxNodes == 4

----------------------------------------------------------------------------
(* Strings.  A TLA+ string cannot be taken apart, so the names the program *)
(* transforms letter by letter are spelled here.                           *)

\* A TLA+ string literal cannot hold the grave accent of CodeClass.get_id;
\* the apostrophe, which no C# identifier holds either, stands for it.
GRAVE == "'"

Upper == << "A", "B", "C", "D", "E", "F", "G", "H", "I", "J", "K", "L", "M",
            "N", "O", "P", "Q", "R", "S", "T", "U", "V", "W", "X", "Y", "Z" >>

Lower == << "a", "b", "c", "d", "e", "f", "g", "h", "i", "j", "k", "l", "m",
            "n", "o", "p", "q", "r", "s", "t", "u", "v", "w", "x", "y", "z" >>

Chars(s) ==
  CASE s = "" -> << >>
    [] s = "A" -> << "A" >>
    [] s = "T" -> << "T" >>
    [] s = "List" -> << "L", "i", "s", "t" >>
    [] s = "Color" -> << "C", "o", "l", "o", "r" >>
    [] s = "Namespace" -> << "N", "a", "m", "e", "s", "p", "a", "c", "e" >>
    [] s = "Stale" -> << "S", "t", "a", "l", "e" >>
    [] s = "old" -> << "o", "l", "d" >>
    [] s = "notes" -> << "n", "o", "t", "e", "s" >>
    [] s = ".notes" -> << ".", "n", "o", "t", "e", "s" >>
    [] s = ".git" -> << ".", "g", "i", "t" >>
    [] s = "gen" -> << "g", "e", "n" >>
    [] s = "top" -> << "t", "o", "p" >>
    [] s = "notes.cs" -> << "n", "o", "t", "e", "s", ".", "c", "s" >>
    [] s = "App" -> << "A", "p", "p" >>
    [] s = "Core" -> << "C", "o", "r", "e" >>
    [] s = "Ui" -> << "U", "i" >>
    [] s = "System" -> << "S", "y", "s", "t", "e", "m" >>
    [] s = "Linq" -> << "L", "i", "n", "q" >>
    [] s = "Collections" -> << "C", "o", "l", "l", "e", "c", "t", "i", "o", "n", "s" >>
    [] s = "Generic" -> << "G", "e", "n", "e", "r", "i", "c" >>
    [] s = "IO" -> << "I", "O" >>
    [] s = "Text" -> << "T", "e", "x", "t" >>
    [] s = "RegularExpressions" ->
         << "R", "e", "g", "u", "l", "a", "r",
            "E", "x", "p", "r", "e", "s", "s", "i", "o", "n", "s" >>
    [] s = "Godot" -> << "G", "o", "d", "o", "t" >>
    [] s = "GdUnit4" -> << "G", "d", "U", "n", "i", "t", "4" >>
    [] s = "Assertions" -> << "A", "s", "s", "e", "r", "t", "i", "o", "n", "s" >>

RECURSIVE Concat(_)
Concat(ss) == IF ss = << >> THEN "" ELSE Head(ss) \o Concat(Tail(ss))

RECURSIVE Join(_, _)
Join(ss, sep) ==
  IF ss = << >> THEN ""
  ELSE IF Len(ss) = 1 THEN ss[1]
  ELSE ss[1] \o sep \o Join(Tail(ss), sep)

RECURSIVE Flatten(_)
Flatten(sss) == IF sss = << >> THEN << >> ELSE Head(sss) \o Flatten(Tail(sss))

RECURSIVE LStrip(_, _)
LStrip(cs, c) == IF cs # << >> /\ Head(cs) = c THEN LStrip(Tail(cs), c) ELSE cs

IsUpper(c) == \E i \in 1..Len(Upper) : Upper[i] = c

ToLower(c) ==
  IF IsUpper(c) THEN Lower[CHOOSE i \in 1..Len(Upper) : Upper[i] = c] ELSE c

camel_to_snake(s) ==
  LET cs == Chars(s)
      pieces == [i \in 1..Len(cs) |->
                   IF IsUpper(cs[i]) THEN << "_", ToLower(cs[i]) >> ELSE << cs[i] >>]
  IN Concat(LStrip(Flatten(pieces), "_"))

----------------------------------------------------------------------------
(* Dicts as insertion-ordered sequences. *)

Range(s) == { s[i] : i \in 1..Len(s) }

HasKey(d, key) == \E i \in 1..Len(d) : d[i].id = key

Lookup(d, key) == d[CHOOSE i \in 1..Len(d) : d[i].id = key]

\* d[obj.id] = obj
Put(d, obj) ==
  IF HasKey(d, obj.id)
  THEN [i \in 1..Len(d) |-> IF d[i].id = obj.id THEN obj ELSE d[i]]
  ELSE Append(d, obj)

\* a field table that keeps the first entry of a name (C4 tells it from PutField)
PutFieldFirstWins(d, f) ==
  IF \E i \in 1..Len(d) : d[i].name = f.name THEN d ELSE Append(d, f)

\* fields[field.name] = field
PutField(d, f) ==
  IF \E i \in 1..Len(d) : d[i].name = f.name
  THEN [i \in 1..Len(d) |-> IF d[i].name = f.name THEN f ELSE d[i]]
  ELSE Append(d, f)

\* f with f[k] = v, k new or not
Bind(f, k, v) == [x \in DOMAIN f \cup {k} |-> IF x = k THEN v ELSE f[x]]

----------------------------------------------------------------------------
(* The symbol graph: [subnamespaces, types_by_id, classes].                *)
(* A type object is a record: k (its Python class), scope (the             *)
(* parent_type_scope), id, name, and what its variant adds.  The scope of  *)
(* a namespace is [ns |-> path, cls |-> ""], of a class [ns |-> path,      *)
(* cls |-> id].  CodeType.__init__ registers every new object in its       *)
(* scope.                                                                  *)

Root == << >>

NsScope(ns) == [ns |-> ns, cls |-> ""]

ClassScope(ns, id) == [ns |-> ns, cls |-> id]

ClassKey(t) == << t.scope.ns, t.id >>

get_id(name, param_count) ==
  IF param_count # 0 THEN name \o GRAVE \o ToString(param_count) ELSE name

ScopeTypes(g, scope) ==
  IF scope.cls = "" THEN g.types_by_id[scope.ns]
  ELSE g.classes[<< scope.ns, scope.cls >>].types_by_id

\* CodeType.__init__: parent_type_scope.types_by_id[id] = self
Register(g, obj) ==
  IF obj.scope.cls = ""
  THEN [g EXCEPT !.types_by_id[obj.scope.ns] = Put(@, obj)]
  ELSE [g EXCEPT !.classes[<< obj.scope.ns, obj.scope.cls >>].types_by_id = Put(@, obj)]

CodeGenericParameter(name, ns, class_id) ==
  [k |-> "gparam", scope |-> ClassScope(ns, class_id), id |-> name, name |-> name]

RECURSIVE GenericParameters(_, _, _, _)
GenericParameters(names, ns, class_id, acc) ==
  IF names = << >> THEN acc
  ELSE GenericParameters(Tail(names), ns, class_id,
                         Put(acc, CodeGenericParameter(Head(names), ns, class_id)))

\* CodeClass.__init__
CodeClass(g, name, kind, generic_parameter_names, ns, is_dummy_type) ==
  LET id == get_id(name, Len(generic_parameter_names))
      obj == [k |-> "class", scope |-> NsScope(ns), id |-> id, name |-> name]
      rec == [kind |-> kind,
              is_dummy_type |-> is_dummy_type,
              types_by_id |-> GenericParameters(generic_parameter_names, ns, id, << >>),
              fields |-> << >>,
              contexts |-> << >>,
              usings |-> << >>]
  IN [Register(g, obj) EXCEPT !.classes = Bind(@, << ns, id >>, rec)]

CodeEnum(g, name, ns, entries) ==
  Register(g, [k |-> "enum", scope |-> NsScope(ns), id |-> name, name |-> name,
               entries |-> entries])

DummyType(g, name, scope) ==
  Register(g, [k |-> "dummy", scope |-> scope, id |-> name, name |-> name])

NullableObj(base_type) ==
  [k |-> "nullable", scope |-> base_type.scope, id |-> base_type.id \o "?",
   name |-> base_type.name \o "?", base_type |-> base_type]

SpecializedObj(generic_class, type_params) ==
  LET name == generic_class.name \o "<"
              \o Join([i \in 1..Len(type_params) |-> type_params[i].name], ", ")
              \o ">"
  IN [k |-> "spec", scope |-> generic_class.scope, id |-> name, name |-> name,
      generic_class |-> generic_class, type_params |-> type_params]

\* CodeNamespace.__init__
CodeNamespace(g, name, parent) ==
  [g EXCEPT !.subnamespaces = Bind([@ EXCEPT ![parent] = Append(@, name)],
                                   Append(parent, name), << >>),
            !.types_by_id = Bind(@, Append(parent, name), << >>)]

RECURSIVE is_dummy(_, _)
is_dummy(g, t) ==
  CASE t.k = "class" -> g.classes[ClassKey(t)].is_dummy_type
    [] t.k = "dummy" -> TRUE
    [] t.k = "spec" -> is_dummy(g, t.generic_class)
    [] OTHER -> FALSE

is_emmittable(g, t) ==
  IF t.k \in {"nullable", "spec", "gparam"} THEN FALSE ELSE ~is_dummy(g, t)

----------------------------------------------------------------------------
(* populate_with_dummy *)

SCG == << "System", "Collections", "Generic" >>

DummyNamespaces ==
  << << "System", Root >>,
     << "Linq", << "System" >> >>,
     << "Collections", << "System" >> >>,
     << "Generic", << "System", "Collections" >> >>,
     << "IO", << "System" >> >>,
     << "Text", << "System" >> >>,
     << "RegularExpressions", << "System", "Text" >> >>,
     << "Godot", Root >>,
     << "GdUnit4", Root >>,
     << "Assertions", << "GdUnit4" >> >> >>

GodotClasses ==
  << "AnimationPlayer", "Area3D", "Button", "ButtonGroup", "Color", "ColorRect",
     "Control", "GpuParticles3D", "HBoxContainer", "Label", "Marker3D",
     "MeshInstance3D", "NavigationAgent3D", "Node", "Node3D", "PackedScene",
     "ProgressBar", "ShaderMaterial", "StaticBody3D", "Texture2D", "Timer",
     "VBoxContainer", "Vector3" >>

DummyClasses ==
  << << "HashSet", << "TElement" >>, SCG >>,
     << "List", << "TElement" >>, SCG >>,
     << "Dictionary", << "TKey", "TValue" >>, SCG >> >>
  \o [i \in 1..Len(GodotClasses) |-> << GodotClasses[i], << >>, << "Godot" >> >>]
  \o << << "Regex", << >>, << "System", "Text", "RegularExpressions" >> >>,
        << "bool", << >>, Root >>,
        << "float", << >>, Root >>,
        << "int", << >>, Root >>,
        << "string", << >>, Root >> >>

RECURSIVE MakeNamespaces(_, _)
MakeNamespaces(g, todo) ==
  IF todo = << >> THEN g
  ELSE MakeNamespaces(CodeNamespace(g, Head(todo)[1], Head(todo)[2]), Tail(todo))

RECURSIVE MakeDummies(_, _)
MakeDummies(g, todo) ==
  IF todo = << >> THEN g
  ELSE MakeDummies(CodeClass(g, Head(todo)[1], "class", Head(todo)[2], Head(todo)[3], TRUE),
                   Tail(todo))

\* Codebase() and populate_with_dummy(codebase)
populate_with_dummy ==
  LET empty == [subnamespaces |-> (Root :> << >>),
                types_by_id |-> (Root :> << >>),
                classes |-> << >>]
  IN MakeDummies(MakeNamespaces(empty, DummyNamespaces), DummyClasses)

----------------------------------------------------------------------------
(* Syntax nodes, as the parser hands them over: the grammar name and the   *)
(* named children the program reads.                                       *)

Identifier(text) == [grammar_name |-> "identifier", text |-> text]

PredefinedType(text) == [grammar_name |-> "predefined_type", text |-> text]

NullableType(child) == [grammar_name |-> "nullable_type", child |-> child]

GenericName(name, args) == [grammar_name |-> "generic_name", name |-> name, args |-> args]

ArrayType(element, rank) == [grammar_name |-> "array_type", element |-> element, rank |-> rank]

TupleType == [grammar_name |-> "tuple_type"]

FieldDeclaration(type, name) == [type |-> type, name |-> name]

UsingDirective(path) == [grammar_name |-> "using_directive", text |-> path]

FileNamespace(path) == [grammar_name |-> "file_scoped_namespace_declaration", text |-> path]

ClassDeclaration(name, params, declaration_list) ==
  [grammar_name |-> "class_declaration", name |-> name, params |-> params,
   declaration_list |-> declaration_list]

InterfaceDeclaration(name, params, declaration_list) ==
  [grammar_name |-> "interface_declaration", name |-> name, params |-> params,
   declaration_list |-> declaration_list]

StructDeclaration(name, params, declaration_list) ==
  [grammar_name |-> "struct_declaration", name |-> name, params |-> params,
   declaration_list |-> declaration_list]

\* NodeKind CLASS_DECLARATION | IFACE_DECLARATION | STRUCT_DECLARATION
ClassLikeDeclaration(node) ==
  node.grammar_name \in {"class_declaration", "interface_declaration", "struct_declaration"}

\* a member is [name, value]; value is << >> (no value node) or << text >>
EnumDeclaration(name, members) ==
  [grammar_name |-> "enum_declaration", name |-> name, members |-> members]

AppCore == << "App", "Core" >>

IntType == PredefinedType("int")

Red == [name |-> "Red", value |-> << >>]

Blue == [name |-> "Blue", value |-> << "2" >>]

\* Each family is the set of top-level nodes the files of one run are made of.
FamDummy ==
  { UsingDirective(<< "Godot" >>),
    FileNamespace(AppCore),
    ClassDeclaration("A", << >>, << FieldDeclaration(Identifier("Color"), "f"),
                                    FieldDeclaration(IntType, "g") >>),
    EnumDeclaration("Color", << Red >>) }

FamGeneric ==
  { FileNamespace(AppCore),
    EnumDeclaration("T", << Red >>),
    ClassDeclaration("A", << "T" >>, << FieldDeclaration(Identifier("T"), "f"),
                                        FieldDeclaration(NullableType(Identifier("T")), "g") >>),
    ClassDeclaration("A", << >>, << FieldDeclaration(Identifier("T"), "f") >>) }

FamMerge ==
  { UsingDirective(AppCore),
    ClassDeclaration("A", << >>, << FieldDeclaration(IntType, "f"),
                                    FieldDeclaration(Identifier("Color"), "f") >>),
    StructDeclaration("A", << >>, << FieldDeclaration(IntType, "g"),
                                     FieldDeclaration(IntType, "f") >>),
    InterfaceDeclaration("Namespace", << >>, << FieldDeclaration(NullableType(IntType), "h") >>) }

FamEnum ==
  { FileNamespace(AppCore),
    FileNamespace(<< "App" >>),
    EnumDeclaration("Color", << Red >>),
    EnumDeclaration("Color", << Red, Blue >>),
    ClassDeclaration("Color", << >>, << >>) }

FamArray ==
  { FileNamespace(<< "System", "Collections" >>),
    FileNamespace(SCG),
    ClassDeclaration("List", << "T" >>, << >>),
    ClassDeclaration("A", << >>, << FieldDeclaration(ArrayType(IntType, "[]"), "f"),
                                    FieldDeclaration(GenericName("List", << IntType >>), "g") >>) }

FamFatal ==
  { ClassDeclaration("A", << >>, << FieldDeclaration(IntType, "f"),
                                    FieldDeclaration(TupleType, "g") >>),
    ClassDeclaration("A", << "T" >>, << FieldDeclaration(ArrayType(IntType, "[,]"), "f") >>),
    StructDeclaration("List", << >>, << FieldDeclaration(ArrayType(Identifier("Color"), "[]"), "f") >>),
    EnumDeclaration("T", << Blue >>) }

\* one class declared where the import is in force and where it is not
FamShadow ==
  { UsingDirective(<< "Godot" >>),
    FileNamespace(AppCore),
    ClassDeclaration("A", << >>, << FieldDeclaration(Identifier("Color"), "f") >>) }

Families == { FamDummy, FamGeneric, FamMerge, FamEnum, FamArray, FamFatal, FamShadow }

\* the top-level nodes a program of the family has at most; FamShadow has
\* fewer kinds of node and its programs are one node longer
NodeBound(f) == IF f = FamShadow THEN MaxNodes + 1 ELSE MaxNodes

----------------------------------------------------------------------------
(* The output location before the run. *)

File(dir, stem, ext) == [dir |-> dir, stem |-> stem, ext |-> ext]

\* what an earlier run over a program declaring class Stale and namespace
\* Old.Gone left, and .cs files someone put there: one at the top, one a
\* level down, two hidden (.notes.cs and .cs) and one in a hidden directory
OldTree ==
  (File(<< >>, "namespace", "hpp") :> << "old manifest" >>)
  @@ (File(<< >>, "stale", "hpp") :> << "old definition" >>)
  @@ (File(<< "old" >>, "namespace", "hpp") :> << "old manifest" >>)
  @@ (File(<< "old" >>, "notes", "cs") :> << "text" >>)
  @@ (File(<< "old" >>, ".notes", "cs") :> << "text" >>)
  @@ (File(<< "old" >>, "", "cs") :> << "text" >>)
  @@ (File(<< ".git" >>, "notes", "cs") :> << "text" >>)
  @@ (File(<< >>, "top", "cs") :> << "text" >>)

\* a location with a directory named notes.cs one level down, next to a
\* .cs file, and a .cs file in another directory
DirTree ==
  (File(<< >>, "stale", "hpp") :> << "old definition" >>)
  @@ (File(<< "old", "notes.cs" >>, "A", "hpp") :> << "text" >>)
  @@ (File(<< "old" >>, "top", "cs") :> << "text" >>)
  @@ (File(<< "gen" >>, "notes", "cs") :> << "text" >>)

OutStates ==
  { [exists |-> FALSE, fs |-> << >>],
    [exists |-> TRUE, fs |-> OldTree],
    [exists |-> TRUE, fs |-> DirTree] }

----------------------------------------------------------------------------
(* Init: Codebase(), populate_with_dummy, nothing parsed yet. *)

Graph == [subnamespaces |-> subnamespaces, types_by_id |-> types_by_id, classes |-> classes]

NoField == [called |-> FALSE]

Init ==
  /\ pc = "discovery"
  /\ fam \in Families
  /\ subnamespaces = populate_with_dummy.subnamespaces
  /\ types_by_id = populate_with_dummy.types_by_id
  /\ classes = populate_with_dummy.classes
  /\ trees = << >>
  /\ namespace = Root
  /\ file_usings = << >>
  /\ work = << >>
  /\ cur = << >>
  /\ chain = << >>
  /\ fi = 0
  /\ last = NoField
  /\ out0 \in OutStates
  /\ out_exists = out0.exists
  /\ fs = out0.fs
  /\ log = << >>

----------------------------------------------------------------------------
(* Discovery: gather_namespace_and_types and traverse_tree_level. *)

SetGraph(g) ==
  /\ subnamespaces' = g.subnamespaces
  /\ types_by_id' = g.types_by_id
  /\ classes' = g.classes

ResolutionIdle == UNCHANGED << work, cur, chain, fi, last >>

OutIdle == UNCHANGED << out0, out_exists, fs, log >>

RECURSIVE NodeCount(_)
NodeCount(ts) == IF ts = << >> THEN 0 ELSE Len(Head(ts)) + NodeCount(Tail(ts))

\* the number of the tree being traversed; it names the tree's `usings` list
files == Len(trees)

\* for path in trees_by_path: namespace = global_namespace; usings = []
StartTree ==
  /\ pc = "discovery"
  /\ files < MaxFiles
  /\ trees' = Append(trees, << >>)
  /\ namespace' = Root
  /\ file_usings' = Append(file_usings, << >>)
  /\ UNCHANGED << pc, fam, subnamespaces, types_by_id, classes >>
  /\ ResolutionIdle /\ OutIdle

\* a traversal that goes on visiting nodes while Resolution runs (C14 tells it
\* from CanVisit)
CanVisitDuringResolution ==
  pc \in {"discovery", "resolution"} /\ files >= 1 /\ NodeCount(trees) < NodeBound(fam)

CanVisit == pc = "discovery" /\ files >= 1 /\ NodeCount(trees) < NodeBound(fam)

Visited(n) == trees' = [trees EXCEPT ![files] = Append(@, n)]

\* case USING_DIRECTIVE: usings.append(get_using_from_node(child_node))
VisitUsing ==
  /\ CanVisit
  /\ \E n \in fam :
       /\ n.grammar_name = "using_directive"
       /\ file_usings' = [file_usings EXCEPT ![files] = Append(@, n.text)]
       /\ Visited(n)
  /\ UNCHANGED << pc, fam, subnamespaces, types_by_id, classes, namespace >>
  /\ ResolutionIdle /\ OutIdle

RECURSIVE get_or_create_namespace(_, _, _)
get_or_create_namespace(g, parent_namespace, namespace_chain) ==
  IF namespace_chain = << >> THEN g
  ELSE LET segment_name == Head(namespace_chain)
           g1 == IF segment_name \notin Range(g.subnamespaces[parent_namespace])
                 THEN CodeNamespace(g, segment_name, parent_namespace)
                 ELSE g
       IN get_or_create_namespace(g1, Append(parent_namespace, segment_name),
                                  Tail(namespace_chain))

\* case FILE_NAMESPACE: the name must be a qualified_name (two segments or more)
VisitNamespace ==
  /\ CanVisit
  /\ \E n \in fam :
       /\ n.grammar_name = "file_scoped_namespace_declaration"
       /\ IF Len(n.text) < 2
          THEN /\ pc' = "discovery_aborted"
               /\ UNCHANGED << subnamespaces, types_by_id, classes, namespace >>
          ELSE /\ pc' = pc
               /\ SetGraph(get_or_create_namespace(Graph, Root, n.text))
               /\ namespace' = n.text
       /\ Visited(n)
  /\ UNCHANGED << fam, file_usings >>
  /\ ResolutionIdle /\ OutIdle

ClassNodeContext(declaration_list_node, parent_namespace, using_strs) ==
  [declaration_list_node |-> declaration_list_node,
   parent_namespace |-> parent_namespace,
   using_strs |-> using_strs]

\* the class exists or is created; the context is appended either way.
\* `usings` is the list object of the tree, named here by the tree's number.
get_or_create_class_from_node(g, node, ns, usings) ==
  LET kind == CASE node.grammar_name = "class_declaration" -> "class"
                [] node.grammar_name = "interface_declaration" -> "interface"
                [] node.grammar_name = "struct_declaration" -> "struct"
      class_id == get_id(node.name, Len(node.params))
      g1 == IF ~HasKey(g.types_by_id[ns], class_id)
            THEN CodeClass(g, node.name, kind, node.params, ns, FALSE)
            ELSE g
  IN [g1 EXCEPT !.classes[<< ns, class_id >>].contexts =
        Append(@, ClassNodeContext(node.declaration_list, ns, usings))]

\* case CLASS_DECLARATION | IFACE_DECLARATION | STRUCT_DECLARATION
VisitClass ==
  /\ CanVisit
  /\ \E n \in fam :
       /\ ClassLikeDeclaration(n)
       /\ LET class_id == get_id(n.name, Len(n.params))
              found == HasKey(types_by_id[namespace], class_id)
          IN IF found /\ Lookup(types_by_id[namespace], class_id).k # "class"
             THEN /\ pc' = "discovery_aborted"     \* assert isinstance(found_type, CodeClass)
                  /\ UNCHANGED << subnamespaces, types_by_id, classes >>
             ELSE /\ pc' = pc
                  /\ SetGraph(get_or_create_class_from_node(Graph, n, namespace, files))
       /\ Visited(n)
  /\ UNCHANGED << fam, namespace, file_usings >>
  /\ ResolutionIdle /\ OutIdle

CodeEnumEntry(name, value) == [name |-> name, value |-> value]

\* one entry per member, in order, the value text copied when there is one
parse_enum_declaration_list(members) ==
  [i \in 1..Len(members) |-> CodeEnumEntry(members[i].name, members[i].value)]

\* an enum whose members every declaration parses anew (C5 tells it from
\* get_or_create_enum_from_node)
get_or_create_enum_reparsed(g, node, ns) ==
  CodeEnum(g, node.name, ns, parse_enum_declaration_list(node.members))

get_or_create_enum_from_node(g, node, ns) ==
  IF ~HasKey(g.types_by_id[ns], node.name)
  THEN CodeEnum(g, node.name, ns, parse_enum_declaration_list(node.members))
  ELSE g

\* case ENUM_DECLARATION
VisitEnum ==
  /\ CanVisit
  /\ \E n \in fam :
       /\ n.grammar_name = "enum_declaration"
       /\ LET found == HasKey(types_by_id[namespace], n.name)
          IN IF found /\ Lookup(types_by_id[namespace], n.name).k # "enum"
             THEN /\ pc' = "discovery_aborted"     \* assert isinstance(found_type, CodeEnum)
                  /\ UNCHANGED << subnamespaces, types_by_id, classes >>
             ELSE /\ pc' = pc
                  /\ SetGraph(get_or_create_enum_from_node(Graph, n, namespace))
       /\ Visited(n)
  /\ UNCHANGED << fam, namespace, file_usings >>
  /\ ResolutionIdle /\ OutIdle

----------------------------------------------------------------------------
(* Resolution: gather_class_elements, create_class_field and the type      *)
(* expressions.  An operator that can raise returns [ok, g, ...]; the      *)
(* graph g keeps what was registered before the exception.                 *)

RECURSIVE get_all_types(_, _)
RECURSIVE get_all_types_below(_, _, _)
get_all_types(g, ns) ==
  g.types_by_id[ns] \o get_all_types_below(g, ns, g.subnamespaces[ns])

get_all_types_below(g, ns, child_names) ==
  IF child_names = << >> THEN << >>
  ELSE get_all_types(g, Append(ns, Head(child_names)))
       \o get_all_types_below(g, ns, Tail(child_names))

IsClass(t) == t.k = "class"

\* classlikes = [t for t in codebase.get_all_types() if isinstance(t, CodeClass)]
Classlikes(g) == SelectSeq(get_all_types(g, Root), IsClass)

\* the (classlike, context) pairs in the order the two loops visit them
RECURSIVE ContextsOf(_, _)
ContextsOf(g, classlikes) ==
  IF classlikes = << >> THEN << >>
  ELSE LET key == ClassKey(Head(classlikes))
       IN [i \in 1..Len(g.classes[key].contexts) |-> [class |-> key, context |-> i]]
          \o ContextsOf(g, Tail(classlikes))

\* Codebase.get_namespace: << >> when a part is no subnamespace (KeyError)
RECURSIVE get_namespace_from(_, _, _)
get_namespace_from(g, ns, parts) ==
  IF parts = << >> THEN << ns >>
  ELSE IF Head(parts) \in Range(g.subnamespaces[ns])
       THEN get_namespace_from(g, Append(ns, Head(parts)), Tail(parts))
       ELSE << >>

get_namespace(g, namespace_path) == get_namespace_from(g, Root, namespace_path)

\* the parent namespace and all of its parents, the global one excluded
EnclosingNamespaces(ns) == [i \in 1..Len(ns) |-> SubSeq(ns, 1, Len(ns) + 1 - i)]

RECURSIVE UsingNamespaces(_, _)
UsingNamespaces(g, using_strs) ==
  IF using_strs = << >> THEN << >>
  ELSE get_namespace(g, Head(using_strs)) \o UsingNamespaces(g, Tail(using_strs))

\* a chain with the root ahead of the imported namespaces (C3 tells it from
\* ScopeChain)
ScopeChainRootFirst(g, context, using_strs) ==
  EnclosingNamespaces(context.parent_namespace)
  \o << Root >>
  \o UsingNamespaces(g, using_strs)

\* `namespaces` of gather_class_elements for one context
ScopeChain(g, context, using_strs) ==
  EnclosingNamespaces(context.parent_namespace)
  \o UsingNamespaces(g, using_strs)
  \o << Root >>

\* a lookup that passes over an import naming no namespace of the graph (C16
\* tells it from UsingsResolve)
UsingsResolveSkipping(g, using_strs) ==
  \A i \in 1..Len(using_strs) : Len(get_namespace(g, using_strs[i])) <= 1

UsingsResolve(g, using_strs) ==
  \A i \in 1..Len(using_strs) : get_namespace(g, using_strs[i]) # << >>

RECURSIVE FirstWith(_, _, _)
FirstWith(g, namespaces, type_id) ==
  IF namespaces = << >> THEN << >>
  ELSE IF HasKey(g.types_by_id[Head(namespaces)], type_id)
       THEN << Lookup(g.types_by_id[Head(namespaces)], type_id) >>
       ELSE FirstWith(g, Tail(namespaces), type_id)

\* Codebase.resolve_type: << the type >>, or << >> for None
resolve_type(g, type_id, namespaces, parent_class) ==
  LET own == g.classes[parent_class].types_by_id
  IN IF Len(own) # 0 /\ HasKey(own, type_id)
     THEN << Lookup(own, type_id) >>
     ELSE FirstWith(g, namespaces, type_id)

Raised(g) == [ok |-> FALSE, g |-> g, type |-> << >>]

Returned(g, type) == [ok |-> TRUE, g |-> g, type |-> type]

RECURSIVE get_type_from_node(_, _, _, _)
RECURSIVE get_type_args(_, _, _, _, _)

\* the type arguments left to right: [ok, g, types]
get_type_args(g, arg_nodes, namespaces, parent_class, acc) ==
  IF arg_nodes = << >> THEN [ok |-> TRUE, g |-> g, types |-> acc]
  ELSE LET r == get_type_from_node(g, Head(arg_nodes), namespaces, parent_class)
       IN IF ~r.ok THEN [ok |-> FALSE, g |-> r.g, types |-> acc]
          ELSE get_type_args(r.g, Tail(arg_nodes), namespaces, parent_class,
                             Append(acc, r.type))

get_generic_type_from_node(g, type_node, namespaces, parent_class) ==
  LET args == get_type_args(g, type_node.args, namespaces, parent_class, << >>)
      generic_type_id == get_id(type_node.name, Len(args.types))
      generic_type == resolve_type(args.g, generic_type_id, namespaces, parent_class)
  IN IF ~args.ok THEN Raised(args.g)
     ELSE IF generic_type = << >> THEN Raised(args.g)           \* assert generic_type
     ELSE IF generic_type[1].k # "class" THEN Raised(args.g)    \* assert isinstance
     ELSE LET type == SpecializedObj(generic_type[1], args.types)
          IN Returned(Register(args.g, type), type)

\* an array type taken for a List whatever its rank specifier (C7 tells it
\* from get_array_type_from_node)
get_array_type_any_rank(g, type_node, namespaces, parent_class) ==
  LET element == get_type_from_node(g, type_node.element, namespaces, parent_class)
      generic_type == resolve_type(element.g, get_id("List", 1),
                                   namespaces \o get_namespace(element.g, SCG),
                                   parent_class)
  IN IF ~element.ok \/ generic_type = << >> THEN Raised(element.g)
     ELSE LET type == SpecializedObj(generic_type[1], << element.type >>)
          IN Returned(Register(element.g, type), type)

get_array_type_from_node(g, type_node, namespaces, parent_class) ==
  LET element == get_type_from_node(g, type_node.element, namespaces, parent_class)
      generic_type_id == get_id("List", 1)
      builtin == get_namespace(element.g, SCG)
      generic_type == resolve_type(element.g, generic_type_id, namespaces \o builtin,
                                   parent_class)
  IN IF ~element.ok THEN Raised(element.g)
     ELSE IF type_node.rank # "[]" THEN Raised(element.g)       \* Unsupported non-1D array
     ELSE IF builtin = << >> THEN Raised(element.g)             \* KeyError
     ELSE IF generic_type = << >> THEN Raised(element.g)
     ELSE IF generic_type[1].k # "class" THEN Raised(element.g)
     ELSE LET type == SpecializedObj(generic_type[1], << element.type >>)
          IN Returned(Register(element.g, type), type)

\* a resolver that raises on a simple name it finds in no scope (C1 tells it
\* from get_type_from_node)
get_type_from_node_strict(g, type_node, namespaces, parent_class) ==
  CASE type_node.grammar_name = "generic_name" ->
         get_generic_type_from_node(g, type_node, namespaces, parent_class)
    [] type_node.grammar_name = "array_type" ->
         get_array_type_from_node(g, type_node, namespaces, parent_class)
    [] type_node.grammar_name \in {"identifier", "predefined_type"} ->
         LET resolved_type == resolve_type(g, type_node.text, namespaces, parent_class)
         IN IF resolved_type = << >> THEN Raised(g) ELSE Returned(g, resolved_type[1])
    [] type_node.grammar_name = "nullable_type" ->
         LET base == get_type_from_node(g, type_node.child, namespaces, parent_class)
         IN IF ~base.ok THEN Raised(base.g)
            ELSE Returned(Register(base.g, NullableObj(base.type)), NullableObj(base.type))
    [] OTHER -> Raised(g)

get_type_from_node(g, type_node, namespaces, parent_class) ==
  CASE type_node.grammar_name = "tuple_type" ->
         Raised(g)                                              \* Tuple types aren't supported
    [] type_node.grammar_name = "generic_name" ->
         get_generic_type_from_node(g, type_node, namespaces, parent_class)
    [] type_node.grammar_name = "array_type" ->
         get_array_type_from_node(g, type_node, namespaces, parent_class)
    [] type_node.grammar_name \in {"identifier", "predefined_type"} ->
         LET type_id == type_node.text
             resolved_type == resolve_type(g, type_id, namespaces, parent_class)
         IN IF resolved_type = << >>
            THEN LET g1 == DummyType(g, type_id, NsScope(parent_class[1]))
                 IN Returned(g1, Lookup(g1.types_by_id[parent_class[1]], type_id))
            ELSE Returned(g, resolved_type[1])
    [] type_node.grammar_name = "nullable_type" ->
         LET base == get_type_from_node(g, type_node.child, namespaces, parent_class)
         IN IF ~base.ok THEN Raised(base.g)
            ELSE Returned(Register(base.g, NullableObj(base.type)), NullableObj(base.type))
    [] OTHER -> Raised(g)                                       \* `type` is unbound

CodeField(name, type) == [name |-> name, type |-> type]

\* [ok, g]: the field's type resolved and the field put into classlike.fields
create_class_field(g, classlike, node, namespaces) ==
  LET field_type == get_type_from_node(g, node.type, namespaces, classlike)
  IN IF ~field_type.ok THEN [ok |-> FALSE, g |-> field_type.g, type |-> << >>]
     ELSE [ok |-> TRUE,
           g |-> [field_type.g EXCEPT !.classes[classlike].fields =
                    PutField(@, CodeField(node.name, field_type.type))],
           type |-> field_type.type]

CurContext == classes[cur[1].class].contexts[cur[1].context]

ContextDone == IF cur = << >> THEN TRUE ELSE fi > Len(CurContext.declaration_list_node)

\* gather_class_elements starts: the class-likes are listed once
EndDiscovery ==
  /\ pc = "discovery"
  /\ pc' = "resolution"
  /\ work' = ContextsOf(Graph, Classlikes(Graph))
  /\ UNCHANGED << fam, subnamespaces, types_by_id, classes, trees, namespace,
                  file_usings, cur, chain, fi, last >>
  /\ OutIdle

\* for context in classlike.contexts: build `namespaces`
BeginContext ==
  /\ pc = "resolution"
  /\ ContextDone
  /\ work # << >>
  /\ LET next == Head(work)
         context == classes[next.class].contexts[next.context]
         using_strs == file_usings[context.using_strs]
     IN /\ cur' = << next >>
        /\ work' = Tail(work)
        /\ fi' = 1
        /\ IF UsingsResolve(Graph, using_strs)
           THEN /\ chain' = ScopeChain(Graph, context, using_strs)
                /\ pc' = pc
           ELSE /\ chain' = << >>
                /\ pc' = "resolution_aborted"                   \* KeyError
  /\ UNCHANGED << fam, subnamespaces, types_by_id, classes, trees, namespace,
                  file_usings, last >>
  /\ OutIdle

\* case FIELD_DECLARATION: create_class_field(classlike, declaration_node, namespaces)
ResolveField ==
  /\ pc = "resolution"
  /\ ~ContextDone
  /\ LET node == CurContext.declaration_list_node[fi]
         r == create_class_field(Graph, cur[1].class, node, chain)
     IN /\ SetGraph(r.g)
        /\ pc' = IF r.ok THEN pc ELSE "resolution_aborted"
        /\ last' = [called |-> TRUE, ok |-> r.ok, node |-> node, type |-> r.type]
  /\ fi' = fi + 1
  /\ UNCHANGED << fam, trees, namespace, file_usings, work, cur, chain >>
  /\ OutIdle

RECURSIVE MergeUsings(_, _)
MergeUsings(usings, namespaces) ==
  IF namespaces = << >> THEN usings
  ELSE MergeUsings(IF Head(namespaces) \in Range(usings) THEN usings
                   ELSE Append(usings, Head(namespaces)),
                   Tail(namespaces))

RECURSIVE consolidate_class_usings(_, _)
consolidate_class_usings(g, contexts) ==
  IF contexts = << >> THEN g
  ELSE LET c == Head(contexts)
           using_strs == file_usings[g.classes[c.class].contexts[c.context].using_strs]
       IN consolidate_class_usings(
            [g EXCEPT !.classes[c.class].usings = MergeUsings(@, UsingNamespaces(g, using_strs))],
            Tail(contexts))

AllUsingsResolve(g, contexts) ==
  \A i \in 1..Len(contexts) :
    UsingsResolve(g, file_usings[g.classes[contexts[i].class].contexts[contexts[i].context].using_strs])

\* gather_class_elements has returned; consolidate_class_usings(codebase)
ConsolidateClassUsings ==
  /\ pc = "resolution"
  /\ ContextDone
  /\ work = << >>
  /\ LET contexts == ContextsOf(Graph, Classlikes(Graph))
     IN IF AllUsingsResolve(Graph, contexts)
        THEN /\ SetGraph(consolidate_class_usings(Graph, contexts))
             /\ pc' = "prepare"
        ELSE /\ UNCHANGED << subnamespaces, types_by_id, classes >>
             /\ pc' = "resolution_aborted"                      \* KeyError
  /\ UNCHANGED << fam, trees, namespace, file_usings, work, cur, chain, fi, last >>
  /\ OutIdle

----------------------------------------------------------------------------
(* Emission.  A file's contents are the pieces the code appends to `out`,  *)
(* in order: the text is their concatenation.                              *)

\* CodeNamespace.get_full_path().replace(".", "::")
CppName(ns) == Join(ns, "::")

get_directory_path(ns) ==
  IF ns = Root THEN camel_to_snake("")
  ELSE Join([i \in 1..Len(ns) |-> camel_to_snake(ns[i])], "/")

get_header_path(ns) == get_directory_path(ns) \o "/namespace.hpp"

get_include_path(t) ==
  get_directory_path(t.scope.ns) \o "/" \o camel_to_snake(t.name) \o ".hpp"

get_template_declaration(g, t) ==
  LET own == g.classes[ClassKey(t)].types_by_id
  IN IF Len(own) # 0
     THEN "template<" \o Join([i \in 1..Len(own) |-> "typename " \o own[i].id], ", ") \o ">"
     ELSE ""

get_forward_declaration(g, t) ==
  IF t.k = "enum" THEN "enum class " \o t.name \o ";"
  ELSE LET template_decl == get_template_declaration(g, t)
       IN (IF template_decl # "" THEN template_decl \o " " ELSE "")
          \o "class " \o t.name \o ";"

Emittable(g, types) == SelectSeq(types, LAMBDA t : is_emmittable(g, t))

\* a manifest with each include directive next to its forward declaration
\* (C8 tells it from get_namespace_header)
get_namespace_header_interleaved(g, ns) ==
  LET types == Emittable(g, g.types_by_id[ns])
  IN << "#pragma once\n\n", "namespace " \o CppName(ns) \o " {\n\n" >>
     \o Flatten([i \in 1..Len(types) |->
                   << get_forward_declaration(g, types[i]) \o "\n",
                      "#include <" \o get_include_path(types[i]) \o ">\n" >>])
     \o << "\n} // namespace " \o CppName(ns) \o "\n\n", "\n" >>

get_namespace_header(g, ns) ==
  LET types == Emittable(g, g.types_by_id[ns])
  IN << "#pragma once\n\n", "namespace " \o CppName(ns) \o " {\n\n" >>
     \o [i \in 1..Len(types) |-> get_forward_declaration(g, types[i]) \o "\n"]
     \o << "\n} // namespace " \o CppName(ns) \o "\n\n" >>
     \o [i \in 1..Len(types) |-> "#include <" \o get_include_path(types[i]) \o ">\n"]
     \o << "\n" >>

field_declaration(field) == field.type.name \o " " \o field.name \o ";"

class_header_contents(g, t) ==
  LET c == g.classes[ClassKey(t)]
      parents == EnclosingNamespaces(t.scope.ns)
      template_decl == get_template_declaration(g, t)
  IN << "#pragma once\n\n" >>
     \o [i \in 1..Len(parents) |-> "#include <" \o get_header_path(parents[i]) \o ">\n"]
     \o << "\n" >>
     \o [i \in 1..Len(c.usings) |-> "#include <" \o get_header_path(c.usings[i]) \o ">\n"]
     \o << "\n", "namespace " \o CppName(t.scope.ns) \o " {\n\n" >>
     \o [i \in 1..Len(c.usings) |-> "using namespace " \o CppName(c.usings[i]) \o ";\n"]
     \o << "\n",
           (IF template_decl # "" THEN template_decl \o "\n" ELSE "")
             \o "class " \o t.name \o " {\n",
           "public:\n" >>
     \o [i \in 1..Len(c.fields) |-> "\t" \o field_declaration(c.fields[i]) \o "\n"]
     \o << "};\n\n", "} // namespace " \o CppName(t.scope.ns) \o "\n" >>

enum_header_contents(t) ==
  << "#pragma once\n\n", "namespace " \o CppName(t.scope.ns) \o " {\n\n",
     "enum class " \o t.name \o " {\n" >>
  \o [i \in 1..Len(t.entries) |->
        "\t" \o t.entries[i].name
        \o (IF t.entries[i].value # << >> THEN " = " \o t.entries[i].value[1] ELSE "")
        \o ",\n"]
  \o << "};\n\n", "} // namespace " \o CppName(t.scope.ns) \o "\n" >>

get_header_contents(g, t) ==
  IF t.k = "enum" THEN enum_header_contents(t) ELSE class_header_contents(g, t)

Write(path, contents, what, ns, id) ==
  [path |-> path, contents |-> contents, what |-> what, ns |-> ns, id |-> id]

\* CodeType.emit_cpp(path), for each type of the namespace in turn
RECURSIVE emit_types(_, _, _)
emit_types(g, types, dir) ==
  IF types = << >> THEN << >>
  ELSE LET t == Head(types)
       IN (IF is_emmittable(g, t)
           THEN << Write(File(dir, camel_to_snake(t.name), "hpp"),
                         get_header_contents(g, t), "definition", t.scope.ns, t.id) >>
           ELSE << >>)
          \o emit_types(g, Tail(types), dir)

\* CodeNamespace.emit_cpp(path): the files written, in order
RECURSIVE emit_namespace(_, _, _)
RECURSIVE emit_subnamespaces(_, _, _, _)
emit_namespace(g, ns, dir) ==
  << Write(File(dir, "namespace", "hpp"), get_namespace_header(g, ns), "manifest", ns, "") >>
  \o emit_subnamespaces(g, ns, g.subnamespaces[ns], dir)
  \o emit_types(g, g.types_by_id[ns], dir)

emit_subnamespaces(g, ns, child_names, dir) ==
  IF child_names = << >> THEN << >>
  ELSE emit_namespace(g, Append(ns, Head(child_names)),
                      Append(dir, camel_to_snake(Head(child_names))))
       \o emit_subnamespaces(g, ns, Tail(child_names), dir)

\* open(path, "w").write(contents), one after the other
RECURSIVE WriteAll(_, _)
WriteAll(f, writes) ==
  IF writes = << >> THEN f
  ELSE WriteAll(Bind(f, Head(writes).path, Head(writes).contents), Tail(writes))

\* a name glob's `*` and `**` do not match: one that begins with a dot
IsHidden(name) == Chars(name) # << >> /\ Head(Chars(name)) = "."

\* the file name stem.ext begins with a dot: the stem is empty or hidden
IsHiddenFile(stem) == stem = "" \/ IsHidden(stem)

\* fnmatch of a name against *.cs
EndsWithCs(name) ==
  LET cs == Chars(name)
  IN Len(cs) >= 3 /\ SubSeq(cs, Len(cs) - 2, Len(cs)) = << ".", "c", "s" >>

\* glob.glob(f"{out_path}/**/*.cs"), not recursive: `**` is one directory
\* level, and neither the directory nor the file may be hidden
old_out_files(f) ==
  { p \in DOMAIN f :
      /\ Len(p.dir) = 1 /\ p.ext = "cs"
      /\ ~IsHidden(p.dir[1]) /\ ~IsHiddenFile(p.stem) }

\* the directories the same glob returns, as << parent, name >>
old_out_directories(f) ==
  { SubSeq(p.dir, 1, 2) :
      p \in { q \in DOMAIN f :
                /\ Len(q.dir) >= 2
                /\ ~IsHidden(q.dir[1]) /\ ~IsHidden(q.dir[2])
                /\ EndsWithCs(q.dir[2]) } }

\* the sets of files os.remove may have removed when the loop ends.  With no
\* directory in glob's list it is the whole list.  With one, os.remove raises
\* on the first directory d the list holds; the list goes parent by parent in
\* the order the file system lists them, so the files before d are any of
\* the files next to d and all files of any parents that hold no directory.
Removals(f) ==
  IF old_out_directories(f) = {} THEN { old_out_files(f) }
  ELSE { S \in SUBSET old_out_files(f) :
           \E d \in old_out_directories(f) :
             \A parent \in { p.dir[1] : p \in old_out_files(f) } \ { d[1] } :
               LET there == { p \in old_out_files(f) : p.dir[1] = parent }
               IN \/ there \cap S = {}
                  \/ /\ there \subseteq S
                     /\ \A e \in old_out_directories(f) : e[1] # parent }

\* `removed` is the set of files the loop got to remove, one of Removals(f)
prepare_out_directory(exists, f, removed) ==
  IF exists
  THEN [exists |-> TRUE,
        fs |-> [p \in DOMAIN f \ removed |-> f[p]],
        raised |-> IF old_out_directories(f) # {} THEN "IsADirectoryError" ELSE ""]
  ELSE [exists |-> TRUE, fs |-> f, raised |-> ""]

DiscoveryIdle == UNCHANGED << fam, trees, namespace, file_usings >>

GraphIdle == UNCHANGED << subnamespaces, types_by_id, classes >>

PrepareOutDirectory ==
  /\ pc = "prepare"
  /\ \E removed \in (IF out_exists THEN Removals(fs) ELSE { {} }) :
       LET r == prepare_out_directory(out_exists, fs, removed)
       IN /\ pc' = IF r.raised = "" THEN "emit" ELSE "prepare_aborted"
          /\ out_exists' = r.exists
          /\ fs' = r.fs
  /\ UNCHANGED << out0, log >>
  /\ DiscoveryIdle /\ GraphIdle /\ ResolutionIdle

\* codebase.emit_cpp(out_path): the graph is read, nothing of it is assigned
EmitCpp ==
  /\ pc = "emit"
  /\ pc' = "done"
  /\ log' = emit_namespace(Graph, Root, << >>)
  /\ fs' = WriteAll(fs, emit_namespace(Graph, Root, << >>))
  /\ UNCHANGED << out0, out_exists >>
  /\ DiscoveryIdle /\ GraphIdle /\ ResolutionIdle

----------------------------------------------------------------------------

Next ==
  \/ StartTree
  \/ VisitUsing
  \/ VisitNamespace
  \/ VisitClass
  \/ VisitEnum
  \/ EndDiscovery
  \/ BeginContext
  \/ ResolveField
  \/ ConsolidateClassUsings
  \/ PrepareOutDirectory
  \/ EmitCpp

Spec == Init /\ [][Next]_vars

----------------------------------------------------------------------------
(* Properties.  What they read of the run: `trees` is the program          *)
(* Discovery has visited, `last` the field create_class_field was called   *)
(* for last, `log` the files Emission wrote.                               *)

SimpleName(type_node) == type_node.grammar_name \in {"identifier", "predefined_type"}

\* the field ResolveField is about to take, when it is enabled
NextField == CurContext.declaration_list_node[fi]

\* `last` is a field of the context `cur` names
LastInContext == last.called /\ cur # << >> /\ fi > 1

\* no scope a lookup for the class `cur` names goes through holds type_id
FoundNowhere(type_id) ==
  /\ ~HasKey(classes[cur[1].class].types_by_id, type_id)
  /\ \A i \in 1..Len(chain) : ~HasKey(types_by_id[chain[i]], type_id)

FieldNamed(fields, name) == fields[CHOOSE i \in 1..Len(fields) : fields[i].name = name]

Dummies(ns) == SelectSeq(types_by_id[ns], LAMBDA t : t.k = "dummy")

\* C1, Resolution: a field whose type is a simple name found in no scope of
\* the chain does not abort the pass.  A dummy of that name is registered in
\* the context's namespace, the field's type is that dummy, and the pass goes
\* on with the next field of the context, the contexts left still to do.
C1_Step ==
  (pc = "resolution" /\ ~ContextDone /\ SimpleName(NextField.type)
   /\ FoundNowhere(NextField.type.text))
  => LET type_id == NextField.type.text
         ns == CurContext.parent_namespace
     IN /\ pc' = "resolution"
        /\ HasKey(types_by_id'[ns], type_id)
        /\ Lookup(types_by_id'[ns], type_id).k = "dummy"
        /\ Lookup(types_by_id'[ns], type_id).name = type_id
        /\ FieldNamed(classes'[cur[1].class].fields, NextField.name).type
             = Lookup(types_by_id'[ns], type_id)
        /\ fi' = fi + 1 /\ cur' = cur /\ work' = work

\* C1, Emission: a dummy has no definition file, and the manifest of its
\* namespace has neither a forward declaration nor an include directive for it.
C1_Emitted ==
  pc = "done" =>
    \A ns \in DOMAIN types_by_id : \A i \in 1..Len(Dummies(ns)) :
      LET d == Dummies(ns)[i]
      IN \A j \in 1..Len(log) :
           /\ ~(log[j].ns = ns /\ log[j].path.stem = camel_to_snake(d.name))
           /\ (log[j].what = "manifest" /\ log[j].ns = ns) =>
                \A c \in Range(log[j].contents) :
                  c \notin { "class " \o d.name \o ";\n",
                             "enum class " \o d.name \o ";\n",
                             "#include <" \o get_include_path(d) \o ">\n" }

\* C1: an unresolved simple name gives a dummy placeholder in the context's
\* namespace as the field's type, never aborts Resolution, and the dummy gets
\* no forward declaration, include directive or definition file.
C1_UnresolvedSimpleNameIsDummy == [][C1_Step]_vars /\ [](C1_Emitted)

\* a run that ended with a class whose first field is a dummy and whose second
\* field was resolved after it
C1_Witness ==
  /\ pc = "done"
  /\ \E c \in DOMAIN classes :
       /\ Len(classes[c].fields) >= 2
       /\ classes[c].fields[1].type.k = "dummy"
       /\ classes[c].fields[1].type.scope.ns = c[1]
       /\ classes[c].fields[2].type.k = "class"

\* C2: whenever the definition name of a generic instantiation is in no scope
\* of the chain (its arguments being resolvable simple names), the run goes on:
\* create_class_field returns, a placeholder being the field's type.
C2_UnresolvedGenericNeverFatal ==
  (/\ LastInContext
   /\ last.node.type.grammar_name = "generic_name"
   /\ \A i \in 1..Len(last.node.type.args) : SimpleName(last.node.type.args[i])
   /\ FoundNowhere(get_id(last.node.type.name, Len(last.node.type.args))))
  => (last.ok /\ pc # "resolution_aborted")

\* the scopes of the priority order, for the context `cur` names:
\* (1) the generic parameters of the class, (2) the context's namespace and
\* its enclosing namespaces, nearest first, (3) the imported namespaces in
\* directive order, (4) the root
PriorityOrder ==
  LET X == CurContext.parent_namespace
      imports == file_usings[CurContext.using_strs]
  IN << SelectSeq(classes[cur[1].class].types_by_id, LAMBDA t : t.k = "gparam") >>
     \o [i \in 1..Len(X) |-> types_by_id[SubSeq(X, 1, Len(X) + 1 - i)]]
     \o [i \in 1..Len(imports) |-> types_by_id[imports[i]]]
     \o << types_by_id[Root] >>

FirstMatch(scopes, type_id) ==
  LET hits == { i \in 1..Len(scopes) : HasKey(scopes[i], type_id) }
  IN IF hits = {} THEN << >>
     ELSE << Lookup(scopes[CHOOSE i \in hits : \A j \in hits : i <= j], type_id) >>

\* C3: the type a simple name resolved to, and the generic class a generic
\* instantiation resolved to, is the first match in the priority order.
C3_FirstMatchInPriorityOrder ==
  (LastInContext /\ last.ok) =>
    /\ SimpleName(last.node.type) =>
         << last.type >> = FirstMatch(PriorityOrder, last.node.type.text)
    /\ last.node.type.grammar_name = "generic_name" =>
         << last.type.generic_class >>
           = FirstMatch(PriorityOrder,
                        get_id(last.node.type.name, Len(last.node.type.args)))

\* a field typed T resolved to the generic parameter although the context's
\* namespace holds a type T
C3_Witness ==
  /\ LastInContext /\ last.ok
  /\ last.node.type = Identifier("T")
  /\ last.type.k = "gparam"
  /\ CurContext.parent_namespace # Root
  /\ HasKey(types_by_id[CurContext.parent_namespace], "T")

\* a field typed Color resolved to the type of an imported namespace although
\* the root holds a type Color
C3_WitnessImport ==
  /\ LastInContext /\ last.ok
  /\ last.node.type = Identifier("Color")
  /\ last.type.scope.ns = << "Godot" >>
  /\ HasKey(types_by_id[Root], "Color")

\* the field declarations of a class, over its contexts in the order
\* gather_class_elements takes them
Declarations(c) ==
  Flatten([i \in 1..Len(classes[c].contexts) |-> classes[c].contexts[i].declaration_list_node])

DeclaredNames(c) == { Declarations(c)[i].name : i \in 1..Len(Declarations(c)) }

LastDeclaration(c, name) ==
  LET ds == Declarations(c)
  IN ds[CHOOSE i \in 1..Len(ds) :
          ds[i].name = name /\ \A j \in 1..Len(ds) : ds[j].name = name => j <= i]

\* C4, one field resolved: the entry of its name is the type just resolved,
\* the entries of the other names and of the other classes stay
C4_Step ==
  (pc = "resolution" /\ ~ContextDone /\ pc' = "resolution") =>
    LET c == cur[1].class
    IN /\ FieldNamed(classes'[c].fields, NextField.name).type = last'.type
       /\ \A i \in 1..Len(classes[c].fields) :
            classes[c].fields[i].name # NextField.name
              => classes[c].fields[i] \in Range(classes'[c].fields)
       /\ \A d \in DOMAIN classes \ {c} : classes'[d].fields = classes[d].fields

\* C4, after Resolution: one entry per declared name, none else, and a name
\* whose last declaration has a simple type name has the type of that name
C4_Table ==
  pc \in {"prepare", "emit", "done"} =>
    \A c \in DOMAIN classes :
      LET fields == classes[c].fields
      IN /\ { fields[i].name : i \in 1..Len(fields) } = DeclaredNames(c)
         /\ Len(fields) = Cardinality(DeclaredNames(c))
         /\ \A n \in DeclaredNames(c) :
              SimpleName(LastDeclaration(c, n).type)
                => FieldNamed(fields, n).type.id = LastDeclaration(c, n).type.text

\* C4: after Resolution the field table of a class holds one entry per field
\* name declared in any of its contexts, and the entry of a name declared
\* more than once is the one resolved last.
C4_FieldTableLastWins == [][C4_Step]_vars /\ [](C4_Table)

\* a class declared in two files, a name declared in both, another name in
\* one of them only, Resolution over
C4_Witness ==
  /\ pc = "prepare"
  /\ \E c \in DOMAIN classes :
       /\ Len(classes[c].contexts) = 2
       /\ classes[c].contexts[1].using_strs # classes[c].contexts[2].using_strs
       /\ \E f1 \in Range(classes[c].contexts[1].declaration_list_node) :
          \E f2 \in Range(classes[c].contexts[2].declaration_list_node) :
            f1.name = f2.name /\ f1.type # f2.type
       /\ Len(classes[c].fields) = 2

\* the positions << tree, node >> of the top-level nodes Discovery has visited
Positions == UNION { { << i, j >> : j \in 1..Len(trees[i]) } : i \in 1..Len(trees) }

\* the namespace the top-level node j of a tree is visited in
NamespaceAt(tree, j) ==
  LET before == { k \in 1..(j - 1) :
                    tree[k].grammar_name = "file_scoped_namespace_declaration" }
  IN IF before = {} THEN Root
     ELSE tree[CHOOSE k \in before : \A l \in before : l <= k].text

\* the positions << tree, node >> of the declarations of enum `name` in ns
EnumDeclarations(ns, name) ==
  { p \in Positions :
      /\ p[2] <= Len(trees[p[1]])
      /\ trees[p[1]][p[2]].grammar_name = "enum_declaration"
      /\ trees[p[1]][p[2]].name = name
      /\ NamespaceAt(trees[p[1]], p[2]) = ns }

Earlier(p, q) == p[1] < q[1] \/ (p[1] = q[1] /\ p[2] <= q[2])

\* C5: the entries of an enum are the members of the first declaration of
\* that name in that namespace, names, order and value texts, whatever
\* declarations of it Discovery visited later.
C5_EnumFirstDeclarationWins ==
  \A ns \in DOMAIN types_by_id : \A t \in 1..Len(types_by_id[ns]) :
    LET e == types_by_id[ns][t]
    IN e.k = "enum" =>
         LET ps == EnumDeclarations(ns, e.name)
             first == CHOOSE p \in ps : \A q \in ps : Earlier(p, q)
             members == trees[first[1]][first[2]].members
         IN /\ ps # {}
            /\ Len(e.entries) = Len(members)
            /\ \A i \in 1..Len(members) :
                 /\ e.entries[i].name = members[i].name
                 /\ e.entries[i].value = members[i].value

\* an enum declared twice in one namespace with different members, both
\* declarations visited
C5_Witness ==
  /\ pc = "resolution"
  /\ \E ns \in DOMAIN types_by_id : \E e \in Range(types_by_id[ns]) :
       /\ e.k = "enum"
       /\ \E p, q \in EnumDeclarations(ns, e.name) :
            /\ p # q
            /\ trees[p[1]][p[2]].members # trees[q[1]][q[2]].members

\* C6: a field declared with a one-dimensional array type resolves to a
\* specialization of the one-parameter List of System.Collections.Generic with
\* one argument, the resolved element type; for element int it is List<int>
\* of the primitive int.
C6_ArrayIsBuiltinList ==
  (LastInContext /\ last.ok /\ last.node.type.grammar_name = "array_type"
   /\ last.node.type.rank = "[]") =>
    /\ last.type.k = "spec"
    /\ last.type.generic_class = Lookup(types_by_id[SCG], get_id("List", 1))
    /\ Len(last.type.type_params) = 1
    /\ last.node.type.element = IntType =>
         /\ last.type.type_params[1] = Lookup(types_by_id[Root], "int")
         /\ last.type.name = "List<int>"

\* a field declared with a tuple type or an array type of another rank than []
UnsupportedShape(type_node) ==
  \/ type_node.grammar_name = "tuple_type"
  \/ type_node.grammar_name = "array_type" /\ type_node.rank # "[]"

HasUnsupportedField ==
  \E i \in 1..Len(trees) : \E j \in 1..Len(trees[i]) :
    /\ ClassLikeDeclaration(trees[i][j])
    /\ \E f \in Range(trees[i][j].declaration_list) : UnsupportedShape(f.type)

\* C7: a program with a field of a tuple type or of a multi-dimensional array
\* type never gets past Resolution: the pass never completes, no file is
\* written and the output location stays as it was.
C7_UnsupportedShapeAborts ==
  HasUnsupportedField =>
    /\ pc \in {"discovery", "discovery_aborted", "resolution", "resolution_aborted"}
    /\ ~(pc = "resolution" /\ work = << >> /\ ContextDone)
    /\ log = << >>
    /\ fs = out0.fs
    /\ out_exists = out0.exists

\* Resolution aborted on a field of an unsupported shape, the output location
\* of an earlier run untouched
C7_Witness ==
  /\ pc = "resolution_aborted"
  /\ last.called /\ ~last.ok /\ UnsupportedShape(last.node.type)
  /\ out0.exists /\ fs = OldTree /\ log = << >>

\* emittable by what the type is: an enum, or a class-like that is no dummy
EmittableTypes(ns) ==
  SelectSeq(types_by_id[ns],
            LAMBDA t : t.k = "enum"
                       \/ (t.k = "class" /\ ~classes[ClassKey(t)].is_dummy_type))

ManifestsOf(ns) == SelectSeq(log, LAMBDA w : w.what = "manifest" /\ w.ns = ns)

\* C8: every namespace gets one manifest; between the opening and the closing
\* of the namespace it holds the forward declarations of the emittable types
\* the namespace owns, after the closing their include directives, nothing
\* else; and every definition file written is the one of an emittable type.
C8_ManifestListsEmittableTypes ==
  pc = "done" =>
    /\ \A ns \in DOMAIN types_by_id :
         LET E == EmittableTypes(ns)
             n == Len(E)
             M == ManifestsOf(ns)
         IN /\ Len(M) = 1
            /\ Len(M[1].contents) = 2 * n + 4
            /\ M[1].contents[n + 3] = "\n} // namespace " \o CppName(ns) \o "\n\n"
            /\ \A i \in 1..n :
                 /\ M[1].contents[2 + i] = get_forward_declaration(Graph, E[i]) \o "\n"
                 /\ M[1].contents[n + 3 + i]
                      = "#include <" \o get_include_path(E[i]) \o ">\n"
    /\ \A j \in 1..Len(log) :
         log[j].what = "definition" =>
           \E t \in Range(EmittableTypes(log[j].ns)) : t.id = log[j].id

\* a namespace with two emittable types, a dummy and a nullable wrapper,
\* emitted
C8_Witness ==
  /\ pc = "done"
  /\ \E ns \in DOMAIN types_by_id :
       /\ Len(EmittableTypes(ns)) >= 2
       /\ \E t \in Range(types_by_id[ns]) : t.k = "dummy"
       /\ \E t \in Range(types_by_id[ns]) : t.k = "nullable"

\* C9: after Emission every file written holds what was written to it: the
\* definition of each emittable type is in the tree, no definition file was
\* overwritten by another type's, and no manifest by a type's file.
C9_OneFilePerType ==
  pc = "done" =>
    \A j \in 1..Len(log) :
      /\ log[j].path \in DOMAIN fs
      /\ fs[log[j].path] = log[j].contents

\* C10: after a run no .hpp file of the output tree is left over from an
\* earlier run, each was written by this run; and where the output location
\* did not exist it exists from prepare_out_directory on, nothing deleted.
C10_OutputClearedBeforeWriting ==
  /\ pc = "done" =>
       \A p \in DOMAIN fs : p.ext = "hpp" => \E j \in 1..Len(log) : log[j].path = p
  /\ (pc \in {"emit", "done"} /\ ~out0.exists) => out_exists
  /\ (pc = "emit" /\ ~out0.exists) => fs = out0.fs

\* the positions << tree, node >> of the declarations of the class c
ClassDeclarations(c) ==
  { p \in Positions :
      /\ p[2] <= Len(trees[p[1]])
      /\ ClassLikeDeclaration(trees[p[1]][p[2]])
      /\ get_id(trees[p[1]][p[2]].name, Len(trees[p[1]][p[2]].params)) = c[2]
      /\ NamespaceAt(trees[p[1]], p[2]) = c[1] }

\* the declaration the i-th context of c was appended for
DeclarationOf(c, i) ==
  CHOOSE p \in ClassDeclarations(c) :
    Cardinality({ q \in ClassDeclarations(c) : Earlier(q, p) }) = i

\* the import directives of a tree ahead of its node j, in order
ImportsBefore(tree, j) ==
  LET usings == SelectSeq(SubSeq(tree, 1, j - 1),
                          LAMBDA n : n.grammar_name = "using_directive")
  IN [k \in 1..Len(usings) |-> usings[k].text]

\* C12: the import list of a declaration context holds the import directives
\* of its file ahead of the declaration, whatever directives Discovery
\* visited later; the scope chain of the context and the consolidated import
\* list of the class are built from these lists.
C12_ImportListIsSnapshot ==
  \A c \in DOMAIN classes :
    /\ \A i \in 1..Len(classes[c].contexts) :
         LET context == classes[c].contexts[i]
             p == DeclarationOf(c, i)
             snapshot == ImportsBefore(trees[p[1]], p[2])
         IN /\ file_usings[context.using_strs] = snapshot
            /\ (pc = "resolution" /\ cur = << [class |-> c, context |-> i] >>)
                 => chain = EnclosingNamespaces(context.parent_namespace)
                            \o snapshot \o << Root >>
    /\ pc \in {"prepare", "emit", "done"} =>
         \A u \in Range(classes[c].usings) :
           \E i \in 1..Len(classes[c].contexts) :
             LET p == DeclarationOf(c, i)
             IN u \in Range(ImportsBefore(trees[p[1]], p[2]))

\* the generic-parameter header of a class declared with these parameters
TemplateHeader(params) ==
  IF params = << >> THEN ""
  ELSE "template<" \o Join([i \in 1..Len(params) |-> "typename " \o params[i]], ", ")
       \o ">\n"

\* C13: the nested scope of a class holds generic parameters and nothing
\* else, those of its first declaration in declaration order when the program
\* declares the class, in every state of Discovery and Resolution; and the
\* definition file of the class opens the class with the generic-parameter
\* header of exactly those parameters.
C13_ClassScopeIsGenericParameters ==
  \A c \in DOMAIN classes :
    /\ \A t \in Range(classes[c].types_by_id) : t.k = "gparam"
    /\ (ClassDeclarations(c) # {} /\ ~classes[c].is_dummy_type) =>
         LET p == DeclarationOf(c, 1)
             node == trees[p[1]][p[2]]
         IN /\ [i \in 1..Len(classes[c].types_by_id) |-> classes[c].types_by_id[i].id]
                 = node.params
            /\ pc = "done" =>
                 \A j \in 1..Len(log) :
                   (log[j].what = "definition" /\ << log[j].ns, log[j].id >> = c)
                     => \E i \in 1..Len(log[j].contents) :
                          log[j].contents[i]
                            = TemplateHeader(node.params) \o "class " \o node.name \o " {\n"

\* the pass a position of the run belongs to
PassOf(p) ==
  CASE p \in {"discovery", "discovery_aborted"} -> 1
    [] p \in {"resolution", "resolution_aborted"} -> 2
    [] OTHER -> 3

\* the positions << tree, node >> of the declarations of a type with the
\* simple identifier `name`: a class-like without generic parameters, or an enum
\* (for an enum c[2] is its name)
SimpleDeclarations(name) ==
  { p \in Positions :
      /\ p[2] <= Len(trees[p[1]])
      /\ \/ /\ ClassLikeDeclaration(trees[p[1]][p[2]])
            /\ trees[p[1]][p[2]].params = << >>
         \/ trees[p[1]][p[2]].grammar_name = "enum_declaration"
      /\ trees[p[1]][p[2]].name = name }

\* every declaration Discovery visited has its shell in the graph
ShellComplete ==
  \A i \in 1..Len(trees) : \A j \in 1..Len(trees[i]) :
    LET n == trees[i][j]
        ns == NamespaceAt(trees[i], j)
    IN /\ ClassLikeDeclaration(n) =>
            LET c == << ns, get_id(n.name, Len(n.params)) >>
            IN /\ HasKey(types_by_id[ns], c[2])
               /\ Lookup(types_by_id[ns], c[2]).k = "class"
               /\ \E k \in 1..Len(classes[c].contexts) :
                    /\ classes[c].contexts[k].declaration_list_node = n.declaration_list
                    /\ classes[c].contexts[k].using_strs = i
       /\ n.grammar_name = "enum_declaration" =>
            /\ HasKey(types_by_id[ns], n.name)
            /\ Lookup(types_by_id[ns], n.name).k = "enum"
       /\ n.grammar_name = "file_scoped_namespace_declaration" =>
            n.text \in DOMAIN types_by_id

\* every field declaration of every context has an entry in the field table
FieldsComplete ==
  \A c \in DOMAIN classes : \A k \in 1..Len(classes[c].contexts) :
    \A f \in Range(classes[c].contexts[k].declaration_list_node) :
      \E g \in Range(classes[c].fields) : g.name = f.name

\* C14, order: nothing is resolved or written during Discovery, nothing is
\* written during Resolution; Resolution starts over the shells of all files
\* and Emission over the fields of all contexts
C14_Passes ==
  /\ PassOf(pc) = 1 => (last = NoField /\ work = << >> /\ cur = << >>)
  /\ (PassOf(pc) <= 2 \/ pc = "prepare") => log = << >>
  /\ PassOf(pc) >= 2 => ShellComplete
  /\ PassOf(pc) = 3 => (work = << >> /\ ContextDone /\ FieldsComplete)

\* C14, order: a pass never starts again, Discovery visits nothing once
\* Resolution has started, no field is resolved once Resolution has completed
C14_Step ==
  /\ PassOf(pc') \in {PassOf(pc), PassOf(pc) + 1}
  /\ PassOf(pc) >= 2 => (trees' = trees /\ file_usings' = file_usings)
  /\ PassOf(pc) = 3 =>
       (last' = last /\ \A c \in DOMAIN classes : classes'[c].fields = classes[c].fields)

\* C14, consequence: a field of a context of file i whose type is an
\* identifier declared in a file visited after file i, in a namespace of the
\* context's chain that is the first scope of the priority order with that
\* identifier, has that declared class or enum as its type, no dummy
C14_Later ==
  (LastInContext /\ last.ok /\ last.node.type.grammar_name = "identifier") =>
    \A p \in SimpleDeclarations(last.node.type.text) :
      LET X == last.node.type.text
          ns == NamespaceAt(trees[p[1]], p[2])
          at == { i \in 1..Len(chain) : chain[i] = ns }
          first == CHOOSE i \in at : \A j \in at : i <= j
      IN (/\ p[1] > CurContext.using_strs
          /\ at # {}
          /\ ~HasKey(classes[cur[1].class].types_by_id, X)
          /\ \A j \in 1..(first - 1) : ~HasKey(types_by_id[chain[j]], X))
         => /\ last.type = Lookup(types_by_id[ns], X)
            /\ last.type.k \in {"class", "enum"}
            /\ (last.type.k = "class")
                 = ClassLikeDeclaration(trees[p[1]][p[2]])
            /\ ~is_dummy(Graph, last.type)

DiscoveredOrder ==
  [i \in 1..Len(PriorityOrder) |-> SelectSeq(PriorityOrder[i], LAMBDA t : t.k # "dummy")]

\* C15: the type a field with a simple type name resolves to is decided by
\* the graph Discovery produced and the field's context alone: the first type
\* of that name Discovery left in the scopes of the context's chain, whatever
\* dummies the fields resolved before have registered, and a dummy of that
\* name only when Discovery left none.
C15_ResolutionOrderIndependent ==
  (LastInContext /\ last.ok /\ SimpleName(last.node.type)) =>
    LET found == FirstMatch(DiscoveredOrder, last.node.type.text)
    IN IF found # << >>
       THEN << last.type >> = found
       ELSE last.type.k = "dummy" /\ last.type.name = last.node.type.text

\* the import directives of the context that name no namespace of the graph
AbsentImports(context) ==
  { u \in Range(file_usings[context.using_strs]) : get_namespace(Graph, u) = << >> }

AllContexts ==
  { x \in [class : DOMAIN classes, context : 1..NodeBound(fam)] :
      x.context <= Len(classes[x.class].contexts) }

\* C16, once Discovery is over: Resolution stops where it takes up a context
\* with an import naming no namespace, no field of the context resolved; a
\* program with such a context never completes Resolution, nothing is written
\* and the output location stays as it was
C16_Fatal ==
  PassOf(pc) >= 2 =>
    \A x \in AllContexts :
      AbsentImports(classes[x.class].contexts[x.context]) # {} =>
        /\ cur = << x >> => (pc = "resolution_aborted" /\ fi = 1 /\ chain = << >>)
        /\ pc \in {"resolution", "resolution_aborted"}
        /\ ~(pc = "resolution" /\ work = << >> /\ ContextDone)
        /\ log = << >> /\ fs = out0.fs /\ out_exists = out0.exists

\* C16, no placeholder: Resolution adds no namespace to the graph, and an
\* aborted run changes nothing any more
C16_Step ==
  /\ PassOf(pc) >= 2 => subnamespaces' = subnamespaces
  /\ pc # "resolution_aborted"

\* C16: an import directive naming a namespace the graph does not hold after
\* Discovery aborts the run when the scope chain of a context carrying it is
\* built, before a field of that context is resolved and before anything is
\* written; it is neither skipped nor given a placeholder namespace.
C16_AbsentImportIsFatal == [][C16_Step]_vars /\ [](C16_Fatal)

\* Resolution aborted taking up the second context of a class, whose file
\* imports the undeclared App.Core, after the fields of the first context were
\* resolved; the output location of an earlier run untouched
C16_Witness ==
  /\ pc = "resolution_aborted"
  /\ cur # << >> /\ cur[1].context = 2 /\ fi = 1
  /\ AbsentImports(CurContext) = { AppCore }
  /\ last.called /\ last.ok
  /\ out0.exists /\ fs = OldTree /\ log = << >>

====
